---- MODULE Spec2Model ----
(***************************************************************************)
(* hcunit: the eval command.  EvalCommand.Execute (pkg/commands/eval.go)   *)
(* merges the values files, renders the templates, normalises the rendered *)
(* manifests and evaluates every discovered test rule of a rego policy     *)
(* against the result (evalPolicyOnInput and its helpers).                 *)
(*                                                                         *)
(* Strings the code inspects (rule names, identifiers, query strings,      *)
(* paths) are sequences of one-character strings, so that HasPrefix,       *)
(* Sprintf, Ext and Base are computed and not assumed.                     *)
(***************************************************************************)
EXTENDS Integers, Sequences, FiniteSets, Bags, TLC

VARIABLES
    config,        \* the EvalCommand as it was constructed from the flags
    s,             \* the EvalCommand: Writer, Verbose, Policy, Namespace
    policyRules,   \* the rules (head name, head key) tester.Load finds at s.Policy
    engine,        \* the policy engine's answer per query string, fixed once given
    pc,            \* position of the run: idle, loop, report, done
    stages,        \* the stages of Execute entered in this run
    queryList,     \* evalPolicyOnInput: the mapping returned by getQueryList
    pending,       \* identifiers the range over queryList has not visited yet
    testResults,   \* evalPolicyOnInput: query string -> passed
    reportPending, \* query strings the range over testResults has not visited yet
    testFailed,    \* evalPolicyOnInput: testFailed
    engineCalls,   \* PrepareForEval and Eval calls made in this run
    out,           \* the lines written in this run, per destination, as bags
    ret,           \* what Execute returned
    prior,         \* what evalPolicyOnInput returned in the previous run on the same inputs
    valueFiles,    \* mergeValues: what each values file holds
    heap,          \* the maps (map[string]interface{}) allocated so far, by address
    base,          \* mergeValues: base, the address of a map
    fileIndex,     \* mergeValues: the position of the range over valueFiles
    lastMerge,     \* the arguments, the result and the heap before of the last mergeMaps call
    mergeReturn,   \* what mergeValues returned
    rendered,      \* UnmarshalYamlMap: the paths of in, the rendered files
    filesPending,  \* paths the range over in has not visited yet
    manifest,      \* UnmarshalYamlMap: out
    lastFile,      \* the path and the text of the file of the last iteration
    yamlReturn     \* what UnmarshalYamlMap returned

mergeVars == <<valueFiles, heap, base, fileIndex, lastMerge, mergeReturn>>

yamlVars == <<rendered, filesPending, manifest, lastFile, yamlReturn>>

evalVars == <<config, s, policyRules, engine, pc, stages, queryList, pending, testResults,
              reportPending, testFailed, engineCalls, out, ret, prior>>

---------------------------------------------------------------------------
(* Bounds *)

MaxRules == 3
MaxCmdRules == 1
MaxValueFiles == 2
MaxTemplateLen == 3

---------------------------------------------------------------------------
(* Strings *)

Str_expect    == <<"e", "x", "p", "e", "c", "t">>
Str_assert    == <<"a", "s", "s", "e", "r", "t">>
Str_expect_ok == <<"e", "x", "p", "e", "c", "t", "_", "o", "k">>
Str_ex        == <<"e", "x">>
Str_deny      == <<"d", "e", "n", "y">>
Str_main      == <<"m", "a", "i", "n">>
Str_data      == <<"d", "a", "t", "a">>

\* strings.HasPrefix(str, prefix): str begins with prefix
HasPrefix(str, prefix) ==
    /\ Len(str) >= Len(prefix)
    /\ SubSeq(str, 1, Len(prefix)) = prefix

Letters ==
    {"a", "b", "c", "d", "e", "f", "g", "h", "i", "j", "k", "l", "m",
     "n", "o", "p", "q", "r", "s", "t", "u", "v", "w", "x", "y", "z",
     "A", "B", "C", "D", "E", "F", "G", "H", "I", "J", "K", "L", "M",
     "N", "O", "P", "Q", "R", "S", "T", "U", "V", "W", "X", "Y", "Z"}

\* (_[a-zA-Z]+)*$ : zero or more groups of an underscore and one or more letters
RECURSIVE MatchGroups(_)
MatchGroups(str) ==
    \/ str = <<>>
    \/ /\ Len(str) >= 2
       /\ str[1] = "_"
       /\ \E n \in 2..Len(str) :
            /\ \A i \in 2..n : str[i] \in Letters
            /\ MatchGroups(SubSeq(str, n + 1, Len(str)))

\* ^<prefix>(_[a-zA-Z]+)*$
MatchPrefixed(prefix, name) ==
    /\ HasPrefix(name, prefix)
    /\ MatchGroups(SubSeq(name, Len(prefix) + 1, Len(name)))

\* the compiled pattern ^expect(_[a-zA-Z]+)*$ ; no function of the package uses it
expectQuery(name) == MatchPrefixed(Str_expect, name)

---------------------------------------------------------------------------
(* Errors *)

InvalidPolicyPath      == "invalid policy path"
UnmatchedQuery         == "your given query did not yield any matches"
PolicyFailure          == "your policy failed"
DuplicatePolicyFailure == "duplicate rule names found"
MergeError             == "failed merging values files"
RenderError            == "error while rendering"
FormatError            == "formatting policy input failed"
PrepareError           == "failed preparing for eval on policies"
EvalError              == "failed eval on policies"
Nil                    == "nil"
NotReturned            == "-"

---------------------------------------------------------------------------
(* The file system and the policy program *)

\* what os.Open does with a policy path: it fails for a path that does not
\* exist and opens a file and a directory alike
Paths == {[name |-> "", kind |-> "missing"],
          [name |-> "nothere.rego", kind |-> "missing"],
          [name |-> "policy.rego", kind |-> "file"],
          [name |-> "policies", kind |-> "dir"]}

OpenFails(path) == path.kind = "missing"

Rule(name, key) == [name |-> name, key |-> key]
Rules == {Rule(Str_expect, <<"a">>), Rule(Str_expect, <<"b">>),
          Rule(Str_assert, <<"a">>), Rule(Str_expect_ok, <<"a">>),
          Rule(Str_ex, <<"a">>), Rule(Str_deny, <<"a">>)}

SeqsUpTo(S, n) == UNION {[1..k -> S] : k \in 0..n}
Programs == SeqsUpTo(Rules, MaxRules)

---------------------------------------------------------------------------
(* getQueryList *)

\* fmt.Sprintf("%s[%s]", rule.Head.Name, rule.Head.Key)
TestIdentifier(rule) == rule.name \o <<"[">> \o rule.key \o <<"]">>

\* the condition under which getQueryList counts a rule
IsCounted(rule) ==
    \/ HasPrefix(Str_expect \o <<"[">>, rule.name)
    \/ HasPrefix(Str_assert \o <<"[">>, rule.name)

\* res[key] += 1 on a map whose missing keys read as 0
Increment(res, key) ==
    IF key \in DOMAIN res
    THEN [res EXCEPT ![key] = @ + 1]
    ELSE [k \in DOMAIN res \cup {key} |-> IF k = key THEN 1 ELSE res[k]]

RECURSIVE getQueryListFrom(_, _)
getQueryListFrom(rules, res) ==
    IF rules = <<>>
    THEN res
    ELSE getQueryListFrom(Tail(rules),
                          IF IsCounted(Head(rules))
                          THEN Increment(res, TestIdentifier(Head(rules)))
                          ELSE res)

getQueryList(rules) == getQueryListFrom(rules, <<>>)

---------------------------------------------------------------------------
(* The policy engine *)

\* fmt.Sprintf("data.%s.%s", namespace, querySuffix)
QueryString(namespace, querySuffix) ==
    Str_data \o <<".">> \o namespace \o <<".">> \o querySuffix

OtherText == <<"x">>

\* A result set is a sequence of results, a result the sequence of the texts of
\* its expressions.
ResultSets(q) ==
    {<<>>, <<<<OtherText>>>>, <<<<OtherText>>, <<OtherText, q>>>>}

Answers(q) ==
    {[kind |-> "prepareError", rs |-> <<>>], [kind |-> "evalError", rs |-> <<>>]}
    \cup {[kind |-> "ok", rs |-> rs] : rs \in ResultSets(q)}

\* a test passes as soon as the engine returns any result
PassedIfAnyResult(resultSet, queryString) == Len(resultSet) > 0

\* the loops over resultSet and result.Expressions of evalPolicyOnInput
Passed(resultSet, queryString) ==
    \E i \in 1..Len(resultSet) :
        \E j \in 1..Len(resultSet[i]) : resultSet[i][j] = queryString

---------------------------------------------------------------------------
(* EvalCommand.Execute *)

Writers == {"nil", "custom"}
Namespaces == {<<>>, <<"n", "s">>}

EvalCommands ==
    [Writer : Writers, Verbose : BOOLEAN, Policy : Paths, Namespace : Namespaces]

\* setDefaults without the replacement of the Writer when Verbose is off
setDefaultsKeepWriter(cmd) ==
    [cmd EXCEPT !.Writer = IF cmd.Writer = "nil" THEN "stdout" ELSE cmd.Writer,
                !.Namespace = IF cmd.Namespace = <<>> THEN Str_main ELSE cmd.Namespace]

\* EvalCommand.setDefaults
setDefaults(cmd) ==
    LET w1 == IF cmd.Writer = "nil" THEN "stdout" ELSE cmd.Writer
        w2 == IF ~cmd.Verbose THEN "buffer" ELSE w1
        ns == IF cmd.Namespace = <<>> THEN Str_main ELSE cmd.Namespace
    IN  [cmd EXCEPT !.Writer = w2, !.Namespace = ns]

NoOutput == [stdout |-> EmptyBag, custom |-> EmptyBag, buffer |-> EmptyBag]

\* colorstring.Println, colorstring.Print and fmt.Println write to the process's
\* standard output
Println(o, line) == [o EXCEPT !.stdout = @ (+) SetToBag({line})]

\* topdown.PrettyTrace(writer, *buf)
PrettyTrace(o, writer, queryString) ==
    [o EXCEPT ![writer] = @ (+) SetToBag({<<"TRACE", queryString>>})]

EvalReturned == pc = "done" /\ "discover" \in stages

\* Execute from its first line to the call of evalPolicyOnInput and, in it, the
\* call of getQueryList.  mergeValues, validateAndRender and UnmarshalYamlMap
\* succeed or fail as their inputs decide.
Execute ==
    /\ pc \in {"idle", "done"}
    /\ s' = setDefaults(s)
    /\ prior' = IF EvalReturned THEN ret ELSE prior
    /\ out' = NoOutput
    /\ engineCalls' = 0
    /\ testResults' = <<>>
    /\ reportPending' = {}
    /\ testFailed' = FALSE
    /\ UNCHANGED <<config, policyRules, engine>>
    /\ UNCHANGED <<mergeVars, yamlVars>>
    /\ IF s'.Policy.name = "" \/ OpenFails(s'.Policy)
       THEN /\ ret' = InvalidPolicyPath
            /\ pc' = "done"
            /\ stages' = {}
            /\ queryList' = <<>>
            /\ pending' = {}
       ELSE \E mergeOk, renderOk, formatOk \in BOOLEAN :
              IF ~mergeOk
              THEN /\ ret' = MergeError
                   /\ pc' = "done"
                   /\ stages' = {"merge"}
                   /\ queryList' = <<>>
                   /\ pending' = {}
              ELSE IF ~renderOk
              THEN /\ ret' = RenderError
                   /\ pc' = "done"
                   /\ stages' = {"merge", "render"}
                   /\ queryList' = <<>>
                   /\ pending' = {}
              ELSE IF ~formatOk
              THEN /\ ret' = FormatError
                   /\ pc' = "done"
                   /\ stages' = {"merge", "render", "normalize"}
                   /\ queryList' = <<>>
                   /\ pending' = {}
              ELSE /\ ret' = NotReturned
                   /\ pc' = "loop"
                   /\ stages' = {"merge", "render", "normalize", "discover"}
                   /\ queryList' = getQueryList(policyRules)
                   /\ pending' = DOMAIN queryList'

---------------------------------------------------------------------------
(* evalPolicyOnInput *)

\* One iteration of the range over queryList; the map's iteration order is
\* unspecified, so any identifier not yet visited may come next.
LoopIteration ==
    /\ pc = "loop"
    /\ \E querySuffix \in pending :
         LET queryString == QueryString(s.Namespace, querySuffix) IN
         IF queryList[querySuffix] > 1
         THEN /\ out' = Println(Println(out, <<"ERROR: duplicate test names">>),
                                <<"DUPLICATE KEY", querySuffix>>)
              /\ ret' = DuplicatePolicyFailure
              /\ pc' = "done"
              /\ UNCHANGED <<engine, engineCalls, testResults, pending, stages>>
         ELSE \E answer \in Answers(queryString) :
              /\ queryString \in DOMAIN engine => answer = engine[queryString]
              /\ engine' = IF queryString \in DOMAIN engine
                           THEN engine
                           ELSE [q \in DOMAIN engine \cup {queryString} |->
                                   IF q = queryString THEN answer ELSE engine[q]]
              /\ stages' = stages \cup {"eval"}
              /\ IF answer.kind = "prepareError"
                 THEN /\ engineCalls' = engineCalls + 1
                      /\ ret' = PrepareError
                      /\ pc' = "done"
                      /\ UNCHANGED <<out, testResults, pending>>
                 ELSE IF answer.kind = "evalError"
                 THEN /\ engineCalls' = engineCalls + 2
                      /\ ret' = EvalError
                      /\ pc' = "done"
                      /\ UNCHANGED <<out, testResults, pending>>
                 ELSE /\ engineCalls' = engineCalls + 2
                      /\ testResults' =
                           [q \in DOMAIN testResults \cup {queryString} |->
                              IF q = queryString
                              THEN Passed(answer.rs, queryString)
                              ELSE testResults[q]]
                      /\ out' = PrettyTrace(out, s.Writer, queryString)
                      /\ pending' = pending \ {querySuffix}
                      /\ UNCHANGED <<ret, pc>>
    /\ UNCHANGED <<config, s, policyRules, queryList, reportPending, testFailed, prior>>
    /\ UNCHANGED <<mergeVars, yamlVars>>

\* The range over queryList has ended: the length check, then the report loop.
LoopExit ==
    /\ pc = "loop"
    /\ pending = {}
    /\ IF Cardinality(DOMAIN queryList) <= 0
       THEN /\ ret' = UnmatchedQuery
            /\ pc' = "done"
            /\ UNCHANGED reportPending
       ELSE /\ pc' = "report"
            /\ reportPending' = DOMAIN testResults
            /\ UNCHANGED ret
    /\ testFailed' = FALSE
    /\ UNCHANGED <<config, s, policyRules, engine, stages, queryList, pending, testResults,
                   engineCalls, out, prior>>
    /\ UNCHANGED <<mergeVars, yamlVars>>

\* testFailed = !passed: the last test visited decides
FailedAfterLast(failed, passed) == ~passed

\* testFailed after one more test
FailedAfter(failed, passed) == IF passed THEN failed ELSE TRUE

\* the report line with the labels exchanged
ReportLineInverted(testname, passed) == <<IF passed THEN "FAIL" ELSE "PASS", testname>>

\* colorstring.Print of the label, then fmt.Println(testname)
ReportLine(testname, passed) == <<IF passed THEN "PASS" ELSE "FAIL", testname>>

\* One iteration of the range over testResults.
ReportIteration ==
    /\ pc = "report"
    /\ \E testname \in reportPending :
         /\ out' = Println(out, ReportLine(testname, testResults[testname]))
         /\ testFailed' = FailedAfter(testFailed, testResults[testname])
         /\ reportPending' = reportPending \ {testname}
    /\ UNCHANGED <<config, s, policyRules, engine, pc, stages, queryList, pending, testResults,
                   engineCalls, ret, prior>>
    /\ UNCHANGED <<mergeVars, yamlVars>>

\* The range over testResults has ended: the banner and the return.
ReportExit ==
    /\ pc = "report"
    /\ reportPending = {}
    /\ IF testFailed
       THEN /\ out' = Println(out, <<"[FAILURE] Policy violations found">>)
            /\ ret' = PolicyFailure
       ELSE /\ out' = Println(out, <<"[SUCCESS] complies with all policies">>)
            /\ ret' = Nil
    /\ pc' = "done"
    /\ UNCHANGED <<config, s, policyRules, engine, stages, queryList, pending, testResults,
                   reportPending, testFailed, engineCalls, prior>>
    /\ UNCHANGED <<mergeVars, yamlVars>>

---------------------------------------------------------------------------
(* mergeValues and mergeMaps *)

\* A value of a parsed document is a scalar, a sequence or a mapping with string
\* keys.  In a document a mapping holds its entries; in the heap a
\* map[string]interface{} holds, for a mapping, the address of another map.
Scalar(n)   == [t |-> "scalar", v |-> n]
Sequence(q) == [t |-> "seq", v |-> q]
Mapping(m)  == [t |-> "map", v |-> m]
Absent      == [t |-> "absent", v |-> 0]

IsMap(value) == value.t = "map"

\* m[k] = v
Put(m, k, v) == [x \in DOMAIN m \cup {k} |-> IF x = k THEN v ELSE m[x]]

NestedMaps == UNION {[ks -> {Scalar(1), Scalar(2)}] : ks \in SUBSET {"x", "y"}}
ValuesOfA == {Scalar(1), Sequence(<<1>>)} \cup {Mapping(m) : m \in NestedMaps}
ValuesOfB == {Scalar(1), Sequence(<<1, 2>>)}

Document(va, vb) ==
    [k \in {x \in {"a"} : va # Absent} \cup {x \in {"b"} : vb # Absent} |->
        IF k = "a" THEN va ELSE vb]

Documents ==
    {Document(va, vb) : va \in ValuesOfA \cup {Absent}, vb \in ValuesOfB \cup {Absent}}

\* A values file cannot be read, does not parse into a mapping, or holds a document.
Unreadable == [kind |-> "unreadable", doc |-> <<>>]
Unparsable == [kind |-> "unparsable", doc |-> <<>>]
FileContents == {Unreadable, Unparsable} \cup {[kind |-> "yaml", doc |-> d] : d \in Documents}

\* yaml.Unmarshal(bytes, &currentMap): the maps of the document, allocated in
\* the heap; the result is the heap and the address of the document's map
RECURSIVE Unmarshal(_, _), UnmarshalKeys(_, _, _, _)
Unmarshal(h, doc) == UnmarshalKeys(h, doc, DOMAIN doc, <<>>)
UnmarshalKeys(h, doc, keys, cell) ==
    IF keys = {}
    THEN [h |-> Append(h, cell), r |-> Len(h) + 1]
    ELSE LET k == CHOOSE x \in keys : TRUE IN
         IF IsMap(doc[k])
         THEN LET sub == Unmarshal(h, doc[k].v) IN
              UnmarshalKeys(sub.h, doc, keys \ {k}, Put(cell, k, Mapping(sub.r)))
         ELSE UnmarshalKeys(h, doc, keys \ {k}, Put(cell, k, doc[k]))

\* mergeMaps without the recursion: every value of b replaces the value of a
mergeMapsShallow(h, a, b) ==
    [h |-> Append(h, [k \in DOMAIN h[a] \cup DOMAIN h[b] |->
                        IF k \in DOMAIN h[b] THEN h[b][k] ELSE h[a][k]]),
     r |-> Len(h) + 1]

\* mergeMaps(a, b) on the maps at addresses a and b: out is a new map holding
\* the entries of a; then, for every key of b (the keys are independent, so the
\* order of the range does not matter), out[k] is the merge of out[k] and b[k]
\* when both are maps and b[k] otherwise.  The result is the heap and out.
RECURSIVE mergeMaps(_, _, _), mergeKeys(_, _, _, _)
mergeMaps(h, a, b) == mergeKeys(Append(h, h[a]), Len(h) + 1, b, DOMAIN h[b])
mergeKeys(h, o, b, keys) ==
    IF keys = {}
    THEN [h |-> h, r |-> o]
    ELSE LET k == CHOOSE x \in keys : TRUE
             v == h[b][k]
         IN  IF IsMap(v) /\ k \in DOMAIN h[o] /\ IsMap(h[o][k])
             THEN LET sub == mergeMaps(h, h[o][k].v, v.v) IN
                  mergeKeys([sub.h EXCEPT ![o] = Put(@, k, Mapping(sub.r))],
                            o, b, keys \ {k})
             ELSE mergeKeys([h EXCEPT ![o] = Put(@, k, v)], o, b, keys \ {k})

NoMerge == [a |-> 0, b |-> 0, out |-> 0, before |-> <<>>]
NoReturn == [doc |-> 0, err |-> NotReturned]

\* One iteration of the range over valueFiles: readFile, yaml.Unmarshal into a
\* new map, base = mergeMaps(base, currentMap).
MergeValuesIteration ==
    /\ mergeReturn = NoReturn
    /\ fileIndex \in 1..Len(valueFiles)
    /\ LET file == valueFiles[fileIndex] IN
       IF file.kind = "unreadable"
       THEN /\ mergeReturn' = [doc |-> 0, err |-> "read failed"]
            /\ UNCHANGED <<heap, base, fileIndex, lastMerge>>
       ELSE IF file.kind = "unparsable"
       THEN /\ mergeReturn' = [doc |-> 0, err |-> "failed to parse"]
            /\ UNCHANGED <<heap, base, fileIndex, lastMerge>>
       ELSE LET current == Unmarshal(heap, file.doc)
                merged  == mergeMaps(current.h, base, current.r)
            IN  /\ heap' = merged.h
                /\ base' = merged.r
                /\ lastMerge' = [a |-> base, b |-> current.r, out |-> merged.r,
                                 before |-> current.h]
                /\ fileIndex' = fileIndex + 1
                /\ UNCHANGED mergeReturn
    /\ UNCHANGED valueFiles
    /\ UNCHANGED <<evalVars, yamlVars>>

\* The range has ended: return base, nil.
MergeValuesReturn ==
    /\ mergeReturn = NoReturn
    /\ fileIndex > Len(valueFiles)
    /\ mergeReturn' = [doc |-> base, err |-> Nil]
    /\ UNCHANGED <<valueFiles, heap, base, fileIndex, lastMerge>>
    /\ UNCHANGED <<evalVars, yamlVars>>

\* mergeValues has not run
MergeIdle ==
    /\ valueFiles = <<>>
    /\ heap = <<>>
    /\ base = 0
    /\ fileIndex = 0
    /\ lastMerge = NoMerge
    /\ mergeReturn = NoReturn

---------------------------------------------------------------------------
(* UnmarshalYamlMap *)

Str_yml  == <<".", "y", "m", "l">>
Str_yaml == <<".", "y", "a", "m", "l">>

Path_a_yaml   == <<"t", "/", "a">> \o Str_yaml
Path_u_a_yaml == <<"t", "/", "u", "/", "a">> \o Str_yaml
Path_b_yml    == <<"t", "/", "b">> \o Str_yml
Path_n_txt    == <<"t", "/", "n", ".", "t", "x", "t">>

\* the charts rendered: two files of one base name, two structured files, and
\* a structured file beside one that is not
RenderedSets ==
    {{}, {Path_n_txt}, {Path_a_yaml, Path_u_a_yaml}, {Path_a_yaml, Path_b_yml},
     {Path_b_yml, Path_n_txt}}

\* filepath.Ext: the suffix from the last dot of the last element, or nothing
RECURSIVE ExtFrom(_, _)
ExtFrom(path, i) ==
    IF i < 1 \/ path[i] = "/" THEN <<>>
    ELSE IF path[i] = "." THEN SubSeq(path, i, Len(path))
    ELSE ExtFrom(path, i - 1)

Ext(path) == ExtFrom(path, Len(path))

\* filepath.Base of a path that does not end in a separator: its last element
RECURSIVE BaseFrom(_, _)
BaseFrom(path, i) ==
    IF i < 1 \/ path[i] = "/" THEN SubSeq(path, i + 1, Len(path))
    ELSE BaseFrom(path, i - 1)

Base(path) == BaseFrom(path, Len(path))

\* A rendered text is a sequence of pieces: the document separator "\n---\n",
\* text that parses to a value (d1, d2), a comment, and text that does not parse.
Separator == "---"
Pieces == {"d1", "d2", "#", "bad", Separator}
Templates == SeqsUpTo(Pieces, MaxTemplateLen)

\* strings.Split(template, "\n---\n"): the texts between the separators, one
\* more than there are separators
RECURSIVE Split(_, _)
Split(template, chunk) ==
    IF template = <<>> THEN <<chunk>>
    ELSE IF Head(template) = Separator
         THEN <<chunk>> \o Split(Tail(template), <<>>)
         ELSE Split(Tail(template), Append(chunk, Head(template)))

\* yaml.Unmarshal([]byte(doc), &config): an error, or config, which stays nil
\* when the text holds nothing but comments
IsValue(piece) == piece \in {"d1", "d2"}
ParseFails(doc) == \E i \in 1..Len(doc) : doc[i] = "bad"
Parsed(doc) == SelectSeq(doc, IsValue)
IsNilConfig(parsed) == parsed = <<>>

\* what out holds under a base name: one parsed document, the slice of the
\* parsed documents, or the text of the file
OneDoc(parsed)  == [t |-> "doc", v |-> <<parsed>>]
DocSlice(docs)  == [t |-> "slice", v |-> docs]
RawText(text)   == [t |-> "text", v |-> <<text>>]

\* the loop over documents: configDocs when no document fails to parse
RECURSIVE ConfigDocs(_)
ConfigDocs(documents) ==
    IF documents = <<>> THEN <<>>
    ELSE IF IsNilConfig(Parsed(Head(documents)))
         THEN ConfigDocs(Tail(documents))
         ELSE <<Parsed(Head(documents))>> \o ConfigDocs(Tail(documents))

\* the stores with the slice kept for a single document too
StoreDocsAlwaysSlice(o, fpath, configDocs) ==
    IF configDocs # <<>> THEN Put(o, Base(fpath), DocSlice(configDocs)) ELSE o

\* out after the two stores that follow the loop over documents
StoreDocs(o, fpath, configDocs) ==
    LET o1 == IF configDocs # <<>> /\ Len(configDocs) > 1
              THEN Put(o, Base(fpath), DocSlice(configDocs))
              ELSE o
    IN  IF configDocs # <<>> /\ Len(configDocs) = 1
        THEN Put(o1, Base(fpath), OneDoc(configDocs[1]))
        ELSE o1

NotReturnedYaml == [returned |-> FALSE, isNil |-> FALSE, out |-> <<>>, err |-> <<>>]

\* One iteration of the range over in, with the text of the file it visits.
YamlIteration ==
    /\ ~yamlReturn.returned
    /\ \E fpath \in filesPending, template \in Templates :
         /\ lastFile' = [path |-> fpath, text |-> template]
         /\ filesPending' = filesPending \ {fpath}
         /\ IF Ext(fpath) = Str_yml \/ Ext(fpath) = Str_yaml
            THEN LET documents == Split(template, <<>>) IN
                 IF \E i \in 1..Len(documents) : ParseFails(documents[i])
                 THEN /\ yamlReturn' = [returned |-> TRUE, isNil |-> TRUE, out |-> <<>>,
                                        err |-> <<"Unmarshal failed", fpath>>]
                      /\ UNCHANGED manifest
                 ELSE /\ manifest' = StoreDocs(manifest, fpath, ConfigDocs(documents))
                      /\ UNCHANGED yamlReturn
            ELSE /\ manifest' = Put(manifest, Base(fpath), RawText(template))
                 /\ UNCHANGED yamlReturn
    /\ UNCHANGED rendered
    /\ UNCHANGED <<evalVars, mergeVars>>

\* The range has ended: return out, nil.
YamlReturn ==
    /\ ~yamlReturn.returned
    /\ filesPending = {}
    /\ yamlReturn' = [returned |-> TRUE, isNil |-> FALSE, out |-> manifest, err |-> <<>>]
    /\ UNCHANGED <<rendered, filesPending, manifest, lastFile>>
    /\ UNCHANGED <<evalVars, mergeVars>>

NoFile == [path |-> <<>>, text |-> <<>>]

\* UnmarshalYamlMap has not run
YamlIdle ==
    /\ rendered = {}
    /\ filesPending = {}
    /\ manifest = <<>>
    /\ lastFile = NoFile
    /\ yamlReturn = NotReturnedYaml

---------------------------------------------------------------------------
(* The run of the command *)

vars == <<evalVars, mergeVars, yamlVars>>

\* the state of a run not yet started
Idle ==
    /\ config = s
    /\ engine = <<>>
    /\ pc = "idle"
    /\ stages = {}
    /\ queryList = <<>>
    /\ pending = {}
    /\ testResults = <<>>
    /\ reportPending = {}
    /\ testFailed = FALSE
    /\ engineCalls = 0
    /\ out = NoOutput
    /\ ret = NotReturned
    /\ prior = NotReturned

\* A command that traces to its own Writer, in the default namespace, on a policy
\* file of up to MaxRules rules.
Init ==
    /\ s \in {cmd \in EvalCommands :
                /\ cmd.Writer = "custom"
                /\ cmd.Verbose
                /\ cmd.Namespace = <<>>
                /\ cmd.Policy.kind = "file"}
    /\ policyRules \in Programs
    /\ Idle
    /\ MergeIdle
    /\ YamlIdle

\* Every command, on a policy of up to MaxCmdRules rules.
InitCmd ==
    /\ s \in EvalCommands
    /\ policyRules \in (IF s.Policy.kind = "missing"
                        THEN {<<>>}
                        ELSE SeqsUpTo(Rules, MaxCmdRules))
    /\ Idle
    /\ MergeIdle
    /\ YamlIdle

Next ==
    \/ Execute
    \/ LoopIteration
    \/ LoopExit
    \/ ReportIteration
    \/ ReportExit

Spec == Init /\ [][Next]_vars

SpecCmd == InitCmd /\ [][Next]_vars

\* mergeValues on up to MaxValueFiles values files; base := map[string]interface{}{}
InitMerge ==
    /\ valueFiles \in SeqsUpTo(FileContents, MaxValueFiles)
    /\ heap = << <<>> >>
    /\ base = 1
    /\ fileIndex = 1
    /\ lastMerge = NoMerge
    /\ mergeReturn = NoReturn
    /\ s = CHOOSE cmd \in EvalCommands : TRUE
    /\ policyRules = <<>>
    /\ Idle
    /\ YamlIdle

NextMerge ==
    \/ MergeValuesIteration
    \/ MergeValuesReturn

SpecMerge == InitMerge /\ [][NextMerge]_vars

\* UnmarshalYamlMap on any of the rendered files, each of up to MaxTemplateLen
\* pieces; out := make(map[string]interface{})
InitYaml ==
    /\ rendered \in RenderedSets
    /\ filesPending = rendered
    /\ manifest = <<>>
    /\ lastFile = NoFile
    /\ yamlReturn = NotReturnedYaml
    /\ s = CHOOSE cmd \in EvalCommands : TRUE
    /\ policyRules = <<>>
    /\ Idle
    /\ MergeIdle

NextYaml ==
    \/ YamlIteration
    \/ YamlReturn

SpecYaml == InitYaml /\ [][NextYaml]_vars

---------------------------------------------------------------------------
(* Properties of discovery, evaluation and aggregation *)

Range(f) == {f[x] : x \in DOMAIN f}

\* the test naming convention as documented: ^(expect|assert)(_[A-Za-z]+)*$
TestConvention(name) ==
    \/ MatchPrefixed(Str_expect, name)
    \/ MatchPrefixed(Str_assert, name)

Discovered == "discover" \in stages
HasDuplicate == \E id \in DOMAIN queryList : queryList[id] > 1
Visited == DOMAIN queryList \ pending
HasMatch(q) == \E result \in Range(engine[q].rs) : q \in Range(result)
ReportLines == {line \in BagToSet(out.stdout) : line[1] \in {"PASS", "FAIL"}}

\* C1: when some identifier of the policy is counted more than once, the run
\* ends with the duplicate error and the engine is never invoked, whatever the
\* order in which the mapping is iterated.
CE_C1_DuplicateBeforeAnyEval ==
    (Discovered /\ HasDuplicate) =>
        /\ engineCalls = 0
        /\ pc = "done" => ret = DuplicatePolicyFailure

\* C2: a policy with no rule that matches the test naming convention ends with
\* UnmatchedQuery: no query is evaluated, no report line or banner is written,
\* and the run does not succeed.
CE_C2_NoTestsIsUnmatched ==
    (Discovered /\ \A i \in 1..Len(policyRules) : ~TestConvention(policyRules[i].name)) =>
        /\ engineCalls = 0
        /\ out.stdout = EmptyBag
        /\ pc = "done" => ret = UnmatchedQuery

\* C3: every identifier whose engine call succeeded is recorded under the query
\* string data.<namespace>.<identifier> and passes exactly when some result of
\* the engine's result set has an expression whose text is that query string; an
\* empty result set is a FAIL, and only an engine error ends the run with an
\* evaluation error.
Thm_C3_PassIffMatchingExpression ==
    /\ DOMAIN testResults = {QueryString(s.Namespace, id) : id \in Visited}
    /\ \A id \in Visited :
         LET q == Str_data \o <<".">> \o s.Namespace \o <<".">> \o id IN
         /\ q \in DOMAIN engine
         /\ engine[q].kind = "ok"
         /\ testResults[q] <=> HasMatch(q)
         /\ engine[q].rs = <<>> => ~testResults[q]
    /\ ret \in {PrepareError, EvalError} =>
         \E q \in DOMAIN engine : engine[q].kind # "ok"

Wit_C3_PassAndFail ==
    \E q1, q2, q3 \in DOMAIN testResults :
        /\ testResults[q1]
        /\ ~testResults[q2] /\ engine[q2].rs = <<>>
        /\ ~testResults[q3] /\ engine[q3].rs # <<>>

\* C4: a run over a non-empty mapping without duplicates whose engine calls all
\* succeed has written, when it returns, exactly one report line per identifier,
\* PASS or FAIL as the identifier was classified; it returns PolicyFailure
\* exactly when some identifier failed and nil exactly when all passed.
Thm_C4_ReportAndVerdict ==
    (/\ pc = "done"
     /\ Discovered
     /\ DOMAIN queryList # {}
     /\ ~HasDuplicate
     /\ ret \notin {PrepareError, EvalError}) =>
        /\ \A id \in DOMAIN queryList :
             LET q == QueryString(s.Namespace, id) IN
             /\ CopiesIn(<<"PASS", q>>, out.stdout) = (IF HasMatch(q) THEN 1 ELSE 0)
             /\ CopiesIn(<<"FAIL", q>>, out.stdout) = (IF HasMatch(q) THEN 0 ELSE 1)
        /\ Cardinality(ReportLines) = Cardinality(DOMAIN queryList)
        /\ ret \in {PolicyFailure, Nil}
        /\ ret = PolicyFailure <=>
             \E id \in DOMAIN queryList : ~HasMatch(QueryString(s.Namespace, id))
        /\ ret = Nil <=>
             \A id \in DOMAIN queryList : HasMatch(QueryString(s.Namespace, id))

Wit_C4_MixedReport ==
    /\ pc = "done"
    /\ ret = PolicyFailure
    /\ \E p, f \in DOMAIN testResults :
         /\ CopiesIn(<<"PASS", p>>, out.stdout) = 1
         /\ CopiesIn(<<"FAIL", f>>, out.stdout) = 1

\* C5: a rule is counted by discovery, under <head-name>[<head-key>], exactly
\* when its head name matches the test naming convention, and the count of an
\* identifier is the number of rules that carry it (counts of 2 and more are kept).
CE_C5_DiscoveredIffConvention ==
    Discovered =>
        /\ \A i \in 1..Len(policyRules) :
             TestIdentifier(policyRules[i]) \in DOMAIN queryList
                 <=> TestConvention(policyRules[i].name)
        /\ \A id \in DOMAIN queryList :
             queryList[id] =
                 Cardinality({i \in 1..Len(policyRules) :
                                TestIdentifier(policyRules[i]) = id})

Aborts == {DuplicatePolicyFailure, PrepareError, EvalError}
Verdict(outcome) == IF outcome \in Aborts THEN "aborted" ELSE outcome

CE_C7_BadPolicyPathRejected ==
    (pc # "idle" /\ (s.Policy.name = "" \/ s.Policy.kind \in {"missing", "dir"})) =>
        /\ stages = {}
        /\ pc = "done" => ret # Nil

TraceLines(dest) == {line \in BagToSet(out[dest]) : line[1] = "TRACE"}

---------------------------------------------------------------------------
(* Properties of the values merger *)

\* the document held by the map at address r of heap h
RECURSIVE Deref(_, _)
Deref(h, r) ==
    [k \in DOMAIN h[r] |->
        IF IsMap(h[r][k]) THEN Mapping(Deref(h, h[r][k].v)) ELSE h[r][k]]

\* the merge of two documents as documented: the keys of both; a key of one
\* document keeps its value; for a key of both, the merge of the two values when
\* both are mappings, and B's value otherwise
RECURSIVE MergedDocument(_, _)
MergedDocument(A, B) ==
    [k \in DOMAIN A \cup DOMAIN B |->
        IF k \notin DOMAIN B THEN A[k]
        ELSE IF k \notin DOMAIN A THEN B[k]
        ELSE IF IsMap(A[k]) /\ IsMap(B[k])
             THEN Mapping(MergedDocument(A[k].v, B[k].v))
             ELSE B[k]]

\* the left fold of the documented merge over the first n files, from the empty document
RECURSIVE FoldMerged(_, _)
FoldMerged(files, n) ==
    IF n = 0 THEN <<>> ELSE MergedDocument(FoldMerged(files, n - 1), files[n].doc)

\* C8: mergeMaps(a, b) returns the documented merge of a and b (exactly the keys
\* of both, one-sided keys kept, mappings merged recursively, anything else
\* replaced by b's value) and leaves every map that existed before the call, a
\* and b among them, as it was; mergeValues returns the left fold of that merge
\* over the values files, from the empty document.
Thm_C8_MergeIsRecursiveRightBiasedFold ==
    /\ lastMerge # NoMerge =>
         LET A == Deref(lastMerge.before, lastMerge.a)
             B == Deref(lastMerge.before, lastMerge.b)
             R == Deref(heap, lastMerge.out)
         IN  /\ DOMAIN R = DOMAIN A \cup DOMAIN B
             /\ \A k \in DOMAIN A \ DOMAIN B : R[k] = A[k]
             /\ \A k \in DOMAIN B \ DOMAIN A : R[k] = B[k]
             /\ \A k \in DOMAIN A \cap DOMAIN B :
                  IF IsMap(A[k]) /\ IsMap(B[k])
                  THEN R[k] = Mapping(MergedDocument(A[k].v, B[k].v))
                  ELSE R[k] = B[k]
             /\ \A addr \in 1..Len(lastMerge.before) :
                  heap[addr] = lastMerge.before[addr]
             /\ lastMerge.out \notin 1..Len(lastMerge.before)
    /\ mergeReturn.err = Nil =>
         Deref(heap, mergeReturn.doc) = FoldMerged(valueFiles, Len(valueFiles))
    /\ (mergeReturn = NoReturn /\ fileIndex >= 1) =>
         Deref(heap, base) = FoldMerged(valueFiles, fileIndex - 1)

Wit_C8_NestedMergeAndReplace ==
    /\ mergeReturn.err = Nil
    /\ Len(valueFiles) = 2
    /\ LET A == valueFiles[1].doc
           B == valueFiles[2].doc
       IN  /\ DOMAIN A = {"a", "b"} /\ DOMAIN B = {"a", "b"}
           /\ IsMap(A["a"]) /\ IsMap(B["a"])
           /\ DOMAIN A["a"].v = {"x", "y"} /\ DOMAIN B["a"].v = {"y"}
           /\ A["a"].v["y"] # B["a"].v["y"]
           /\ A["b"] = Sequence(<<1, 2>>) /\ B["b"] = Scalar(1)
           /\ Deref(heap, mergeReturn.doc) =
                [a |-> Mapping([x |-> A["a"].v["x"], y |-> B["a"].v["y"]]),
                 b |-> Scalar(1)]

---------------------------------------------------------------------------
(* Properties of the manifest normalizer *)

HasSuffix(str, suffix) ==
    /\ Len(str) >= Len(suffix)
    /\ SubSeq(str, Len(str) - Len(suffix) + 1, Len(str)) = suffix

IsStructured(fpath) == HasSuffix(fpath, Str_yml) \/ HasSuffix(fpath, Str_yaml)

\* the non-empty parsed documents of a text, in the order of its chunks
NonEmptyDocuments(text) ==
    LET chunks == Split(text, <<>>)
        parsed == [i \in 1..Len(chunks) |-> Parsed(chunks[i])]
        kept   == {i \in 1..Len(chunks) : parsed[i] # <<>>}
        \* the i-th smallest index of kept
        nth[i \in 1..Cardinality(kept)] ==
            CHOOSE j \in kept : Cardinality({x \in kept : x < j}) = i - 1
    IN  [i \in 1..Cardinality(kept) |-> parsed[nth[i]]]

LastSegment(fpath) ==
    LET slashes == {i \in 1..Len(fpath) : fpath[i] = "/"}
        from == IF slashes = {} THEN 1
                ELSE 1 + CHOOSE i \in slashes : \A j \in slashes : j <= i
    IN  SubSeq(fpath, from, Len(fpath))

FileStep ==
    filesPending' # filesPending =>
        LET fpath == lastFile'.path
            text  == lastFile'.text
            name  == LastSegment(fpath)
            docs  == NonEmptyDocuments(text)
        IN  IF ~IsStructured(fpath)
            THEN /\ manifest' = Put(manifest, name, RawText(text))
                 /\ ~yamlReturn'.returned
            ELSE IF \E i \in 1..Len(text) : text[i] = "bad"
            THEN /\ yamlReturn'.returned
                 /\ yamlReturn'.isNil
                 /\ yamlReturn'.err[2] = fpath
            ELSE /\ ~yamlReturn'.returned
                 /\ Len(docs) = 0 => manifest' = manifest
                 /\ Len(docs) = 1 => manifest' = Put(manifest, name, OneDoc(docs[1]))
                 /\ Len(docs) > 1 => manifest' = Put(manifest, name, DocSlice(docs))

ReturnStep ==
    (yamlReturn'.returned /\ ~yamlReturn.returned /\ ~yamlReturn'.isNil) =>
        /\ filesPending = {}
        /\ yamlReturn'.out = manifest
        /\ yamlReturn'.err = <<>>

\* C9: each iteration of UnmarshalYamlMap stores, under the base name of its
\* file: for a .yml/.yaml file with exactly one non-empty parsed document, that
\* document itself; with more than one, the slice of them in the order of the
\* text; with none, nothing (out is left as it was); for any other file, its
\* text as it is.  A chunk that does not parse ends the call with an error
\* naming the file and a nil manifest.  Without such a chunk the call returns
\* out after the last file.
Thm_C9_ManifestEntryPerFile == [][FileStep /\ ReturnStep]_vars

Wit_C9_SliceDirectAndRaw ==
    /\ yamlReturn.returned
    /\ ~yamlReturn.isNil
    /\ rendered = {Path_a_yaml, Path_b_yml}
    /\ DOMAIN yamlReturn.out = {LastSegment(Path_a_yaml), LastSegment(Path_b_yml)}
    /\ yamlReturn.out[LastSegment(Path_a_yaml)] = DocSlice(<< <<"d2">>, <<"d1">> >>)
    /\ yamlReturn.out[LastSegment(Path_b_yml)] = OneDoc(<<"d1">>)
    /\ lastFile = [path |-> Path_b_yml, text |-> <<"#", Separator, "d1">>]

====
